---- MODULE Spec2Model ----
(***************************************************************************)
(* Model of the two pressure-streaming sketches of this repository:        *)
(*   Variant A  src/unnamed/part_000            (19600 baud, 1 s delay)     *)
(*   Variant B  src/source/arduino/arduino.ino  (9600 baud, 2 s delay)      *)
(* Characters are ASCII codes.  The serial receive buffer is a FIFO that    *)
(* the host fills asynchronously; loop() is split at the points where the   *)
(* claims observe it: the input step, the sampling step and the delay.      *)
(***************************************************************************)
EXTENDS Integers, Sequences, FiniteSets, TLC

VARIABLES
  variant,       \* "A" or "B": which sketch is flashed
  pc,            \* "setup", "input", "sample", "delay": position of the sketch
  isRunning,     \* bool isRunning
  inputCommand,  \* String inputCommand, a sequence of ASCII codes
  rx,            \* bytes received by the UART and not yet read by Serial.read()
  written,       \* lines written to Serial since the current iteration began
  arrived,       \* history: every byte the host has delivered, in order
  consumed,      \* history: every byte Serial.read() has returned, in order
  availAtStart,  \* history: Serial.available() when the current iteration began
  nRead,         \* history: bytes read by the current iteration
  nDelayArrived, \* history: index in arrived of the last byte delivered during a delay
  afterLine,     \* history: isRunning and inputCommand right after the last terminator read
  sentChunks,    \* history: number of bursts the host has sent
  sinceReading,  \* history: bytes read while running since the last reading
  watch,         \* history: pc and isRunning when the last whole line arrived,
                 \* and the readings emitted since
  twin           \* the other sketch run in step on the same input: its
                 \* isRunning, inputCommand and whether it emitted a reading

vars == <<variant, pc, isRunning, inputCommand, rx, written, arrived, consumed,
          availAtStart, nRead, nDelayArrived, afterLine, sentChunks,
          sinceReading, watch, twin>>

----------------------------------------------------------------------------
(* Bounds of the model *)

MaxChunks == 4

\* blanks a test line carries on either side
MaxPad == 1

\* readings counted after a whole line has arrived
MaxCounted == 6

----------------------------------------------------------------------------
(* Characters and the String operations used by the sketches *)

LF == 10
CR == 13

START == <<115, 116, 97, 114, 116>>      \* "start"
STOP  == <<115, 116, 111, 112>>          \* "stop"

\* the bursts a host may type: "start", "STOP", " ", "x", "\n", "\r"
HostChunks == { <<115, 116, 97, 114, 116>>, <<83, 84, 79, 80>>, <<32>>, <<120>>,
                <<LF>>, <<CR>> }

\* values analogRead() may return
Samples == {0, 511, 1023}

isspace(c) == c = 32 \/ c \in 9..13

tolower(c) == IF c \in 65..90 THEN c + 32 ELSE c

RECURSIVE TrimFront(_)
TrimFront(s) == IF s # <<>> /\ isspace(Head(s)) THEN TrimFront(Tail(s)) ELSE s

RECURSIVE TrimBack(_)
TrimBack(s) ==
  IF s # <<>> /\ isspace(s[Len(s)]) THEN TrimBack(SubSeq(s, 1, Len(s) - 1)) ELSE s

\* variant of trim that strips leading whitespace only
trim_FrontOnly(s) == TrimFront(s)

\* String::trim()
trim(s) == TrimBack(TrimFront(s))

\* variant of equalsIgnoreCase that compares the bytes as they are
equalsIgnoreCase_CaseSensitive(s, lit) == s = lit

\* String::equalsIgnoreCase()
equalsIgnoreCase(s, lit) ==
  /\ Len(s) = Len(lit)
  /\ \A i \in 1..Len(s) : tolower(s[i]) = tolower(lit[i])

\* variant of IsTerminator that takes only the newline
IsTerminator_OnlyLF(c) == c = LF

IsTerminator(c) == c = LF \/ c = CR

----------------------------------------------------------------------------
(* Single-precision arithmetic of the conversion.  A float is a record     *)
(* [s, m, e] that stands for (-1)^s * m * 2^e with m = 0 or                 *)
(* 2^23 <= m < 2^24; results are rounded to nearest, ties to even.  The     *)
(* values of the sketches stay far from overflow and underflow, so          *)
(* infinities, NaN and subnormals are left out.  Integers are kept below    *)
(* 2^31 throughout.                                                          *)

Flt(s, m, e) == [s |-> s, m |-> m, e |-> e]

FZero == Flt(0, 0, 0)

\* number of bits of a positive integer
RECURSIVE BitLen(_)
BitLen(n) == IF n = 0 THEN 0 ELSE 1 + BitLen(n \div 2)

\* (-1)^s * m * 2^e (plus a little more when sticky) rounded to a float
FRound(s, m, e, sticky) ==
  IF m = 0 THEN FZero
  ELSE LET k == BitLen(m) - 24 IN
       IF k <= 0 THEN Flt(s, m * (2^(-k)), e + k)
       ELSE LET q == m \div (2^k)
                r == m % (2^k)
                half == 2^(k - 1)
                up == r > half \/ (r = half /\ (sticky \/ (q % 2) = 1))
                q1 == IF up THEN q + 1 ELSE q
            IN IF q1 = 2^24 THEN Flt(s, 2^23, e + k + 1) ELSE Flt(s, q1, e + k)

\* conversion of a non-negative integer below 2^30
FFromInt(n) == FRound(0, n, 0, FALSE)

FNeg(a) == IF a.m = 0 THEN a ELSE Flt(1 - a.s, a.m, a.e)

\* |a| < |b|
FMagLess(a, b) ==
  IF a.m = 0 THEN b.m # 0
  ELSE IF b.m = 0 THEN FALSE
  ELSE a.e < b.e \/ (a.e = b.e /\ a.m < b.m)

\* a + b
FAdd(a, b) ==
  IF a.m = 0 THEN b
  ELSE IF b.m = 0 THEN a
  ELSE LET big == IF FMagLess(a, b) THEN b ELSE a
           small == IF FMagLess(a, b) THEN a ELSE b
           d == big.e - small.e
           x == big.m * 8
           y == IF d > 27 THEN 0 ELSE (small.m * 8) \div (2^d)
           lost == IF d > 27 THEN TRUE ELSE ((small.m * 8) % (2^d)) # 0
       IN IF big.s = small.s THEN FRound(big.s, x + y, big.e - 3, lost)
          ELSE IF lost THEN FRound(big.s, x - y - 1, big.e - 3, TRUE)
          ELSE FRound(big.s, x - y, big.e - 3, FALSE)

\* a - b
FSub(a, b) == FAdd(a, FNeg(b))

\* a * b, the 48-bit product formed from 12-bit halves
FMul(a, b) ==
  IF a.m = 0 \/ b.m = 0 THEN FZero
  ELSE LET ah == a.m \div 4096
           al == a.m % 4096
           bh == b.m \div 4096
           bl == b.m % 4096
           mid == ah * bl + al * bh
           low == (mid % 4096) * 4096 + al * bl
           hi == ah * bh + (mid \div 4096) + (low \div 16777216)
           lo == low % 16777216
       IN FRound((a.s + b.s) % 2, hi * 4 + (lo \div 4194304),
                 a.e + b.e + 22, (lo % 4194304) # 0)

\* quotient and remainder of n * 2^k by d, one bit at a time
RECURSIVE ShiftDiv(_, _, _, _)
ShiftDiv(q, r, d, k) ==
  IF k = 0 THEN <<q, r>>
  ELSE ShiftDiv(2 * q + ((2 * r) \div d), (2 * r) % d, d, k - 1)

\* a / b for b # 0
FDiv(a, b) ==
  IF a.m = 0 THEN FZero
  ELSE LET qr == ShiftDiv(a.m \div b.m, a.m % b.m, b.m, 26)
       IN FRound((a.s + b.s) % 2, qr[1], a.e - b.e - 26, qr[2] # 0)

\* (unsigned long) a for 0 <= a < 2^30
FTrunc(a) ==
  IF a.m = 0 THEN 0
  ELSE IF a.e >= 0 THEN a.m * (2^(a.e))
  ELSE IF a.e < -24 THEN 0
  ELSE a.m \div (2^(-a.e))

\* the decimal constant n / 10^k as the compiler rounds it
FConst(n, k) ==
  LET d == 10^k
      qr == ShiftDiv(n \div d, n % d, d, 30 - BitLen(n \div d))
  IN FRound(0, qr[1], BitLen(n \div d) - 30, qr[2] # 0)

----------------------------------------------------------------------------
(* The conversion and Print::println(double, digits) *)

\* ASCII digits of a non-negative integer
RECURSIVE Digits(_)
Digits(n) == IF n < 10 THEN <<48 + n>> ELSE Append(Digits(n \div 10), 48 + (n % 10))

\* 0.5 / 10^digits, computed by repeated division as printFloat does
RECURSIVE Rounding(_)
Rounding(digits) ==
  IF digits = 0 THEN FConst(5, 1) ELSE FDiv(Rounding(digits - 1), FFromInt(10))

\* the fractional digits printFloat extracts one at a time
RECURSIVE FracDigits(_, _)
FracDigits(remainder, digits) ==
  IF digits = 0 THEN <<>>
  ELSE LET r10 == FMul(remainder, FFromInt(10))
           toPrint == FTrunc(r10)
       IN <<48 + toPrint>> \o FracDigits(FSub(r10, FFromInt(toPrint)), digits - 1)

\* variant of PrintFloat that cuts the digits off instead of rounding
PrintFloat_Truncating(number, digits) ==
  LET mag == Flt(0, number.m, number.e)
      int_part == FTrunc(mag)
      remainder == FSub(mag, FFromInt(int_part))
  IN (IF number.s = 1 /\ number.m # 0 THEN <<45>> ELSE <<>>)
     \o Digits(int_part) \o <<46>> \o FracDigits(remainder, digits)

\* Print::printFloat(number, digits)
PrintFloat(number, digits) ==
  LET mag == Flt(0, number.m, number.e)
      rounded == FAdd(mag, Rounding(digits))
      int_part == FTrunc(rounded)
      remainder == FSub(rounded, FFromInt(int_part))
  IN (IF number.s = 1 /\ number.m # 0 THEN <<45>> ELSE <<>>)
     \o Digits(int_part) \o <<46>> \o FracDigits(remainder, digits)

\* variant of Voltage that scales by 1024 steps instead of 1023
Voltage_Div1024(sensorValue) ==
  FMul(FFromInt(sensorValue), FDiv(FFromInt(5), FFromInt(1024)))

\* float voltage = sensorValue * (5.0 / 1023.0)
Voltage(sensorValue) == FMul(FFromInt(sensorValue), FDiv(FFromInt(5), FFromInt(1023)))

\* float pressure_kPa = (voltage / 5.0 - 0.095) / 0.009
PressureKPa(voltage) ==
  FDiv(FSub(FDiv(voltage, FFromInt(5)), FConst(95, 3)), FConst(9, 3))

\* float pressure_bar = pressure_kPa / 100.0
PressureBar(pressure_kPa) == FDiv(pressure_kPa, FFromInt(100))

\* the text of the reading each sketch prints for a raw sample
EmittedText(v, sensorValue) ==
  IF v = "A" THEN PrintFloat(Voltage(sensorValue), 2)
  ELSE PrintFloat(PressureBar(PressureKPa(Voltage(sensorValue))), 6)

----------------------------------------------------------------------------
(* Lines on the serial output *)

\* a line of output: a fixed text, or the characters of a printed number
\* together with the raw sample it was computed from
Line(kind, text, raw, number) ==
  [kind |-> kind, text |-> text, raw |-> raw, number |-> number]

BANNER  == Line("banner", "Type 'start' to begin or 'stop' to stop pressure collection.", -1, <<>>)
STARTED == Line("status", "Pressure data collection STARTED.", -1, <<>>)
STOPPED == Line("status", "Pressure data collection STOPPED.", -1, <<>>)

\* the range of analogRead() on a 10-bit converter
AdcRange == 0..1023

\* EmittedText tabulated over both sketches and every raw sample
ReadingText == [v \in {"A", "B"}, sensorValue \in AdcRange |-> EmittedText(v, sensorValue)]

Reading(v, sensorValue) == Line("reading", "", sensorValue, ReadingText[v, sensorValue])

----------------------------------------------------------------------------
(* The command step: the body of the terminator branch of loop() *)

\* variant of ProcessCommand in which "start" toggles the run state
ProcessCommand_Toggle(v, run, cmd) ==
  LET t == trim(cmd) IN
  IF equalsIgnoreCase(t, START)
    THEN [isRunning |-> ~run,  out |-> IF v = "A" THEN <<STARTED>> ELSE <<>>]
  ELSE IF equalsIgnoreCase(t, STOP)
    THEN [isRunning |-> FALSE, out |-> IF v = "A" THEN <<STOPPED>> ELSE <<>>]
  ELSE [isRunning |-> run, out |-> <<>>]

\* variant of ProcessCommand in which an unknown line stops the collection
ProcessCommand_StopOnUnknown(v, run, cmd) ==
  LET t == trim(cmd) IN
  IF equalsIgnoreCase(t, START)
    THEN [isRunning |-> TRUE,  out |-> IF v = "A" THEN <<STARTED>> ELSE <<>>]
  ELSE [isRunning |-> FALSE,
        out |-> IF v = "A" /\ equalsIgnoreCase(t, STOP) THEN <<STOPPED>> ELSE <<>>]

\* variant of ProcessCommand that acknowledges only a change of the run state
ProcessCommand_AckOnChange(v, run, cmd) ==
  LET t == trim(cmd) IN
  IF equalsIgnoreCase(t, START)
    THEN [isRunning |-> TRUE,  out |-> IF v = "A" /\ ~run THEN <<STARTED>> ELSE <<>>]
  ELSE IF equalsIgnoreCase(t, STOP)
    THEN [isRunning |-> FALSE, out |-> IF v = "A" /\ run THEN <<STOPPED>> ELSE <<>>]
  ELSE [isRunning |-> run, out |-> <<>>]

\* variant of ProcessCommand in which sketch B has lost its "stop" branch
ProcessCommand_NoStopInB(v, run, cmd) ==
  LET t == trim(cmd) IN
  IF equalsIgnoreCase(t, START)
    THEN [isRunning |-> TRUE,  out |-> IF v = "A" THEN <<STARTED>> ELSE <<>>]
  ELSE IF equalsIgnoreCase(t, STOP) /\ v = "A"
    THEN [isRunning |-> FALSE, out |-> <<STOPPED>>]
  ELSE [isRunning |-> run, out |-> <<>>]

\* variant of ProcessCommand with the acknowledgements enabled in both sketches
ProcessCommand_AckInBoth(v, run, cmd) ==
  LET t == trim(cmd) IN
  IF equalsIgnoreCase(t, START)
    THEN [isRunning |-> TRUE,  out |-> <<STARTED>>]
  ELSE IF equalsIgnoreCase(t, STOP)
    THEN [isRunning |-> FALSE, out |-> <<STOPPED>>]
  ELSE [isRunning |-> run, out |-> <<>>]

ProcessCommand(v, run, cmd) ==
  LET t == trim(cmd) IN
  IF equalsIgnoreCase(t, START)
    THEN [isRunning |-> TRUE,  out |-> IF v = "A" THEN <<STARTED>> ELSE <<>>]
  ELSE IF equalsIgnoreCase(t, STOP)
    THEN [isRunning |-> FALSE, out |-> IF v = "A" THEN <<STOPPED>> ELSE <<>>]
  ELSE [isRunning |-> run, out |-> <<>>]

\* variant of NextBuffer that keeps at most eight characters
NextBuffer_Capped(cmd, c) ==
  IF IsTerminator(c) THEN <<>> ELSE IF Len(cmd) < 8 THEN Append(cmd, c) ELSE cmd

\* variant of NextBuffer that forgets to reset the buffer
NextBuffer_NoReset(cmd, c) == IF IsTerminator(c) THEN cmd ELSE Append(cmd, c)

\* the buffer after a byte has been read
NextBuffer(cmd, c) == IF IsTerminator(c) THEN <<>> ELSE Append(cmd, c)

----------------------------------------------------------------------------
\* the state after reading every byte of bytes, one command step at a time
RECURSIVE Drained(_, _, _, _)
Drained(v, run, cmd, bytes) ==
  IF bytes = <<>> THEN [isRunning |-> run, inputCommand |-> cmd, out |-> <<>>]
  ELSE LET c == Head(bytes)
           res == ProcessCommand(v, run, cmd)
           rest == Drained(v, IF IsTerminator(c) THEN res.isRunning ELSE run,
                           NextBuffer(cmd, c), Tail(bytes))
       IN [rest EXCEPT !.out = (IF IsTerminator(c) THEN res.out ELSE <<>>) \o @]

TermIn(bytes) == \E k \in 1..Len(bytes) : IsTerminator(bytes[k])

----------------------------------------------------------------------------
(* The lines of the line-by-line specification *)

\* lit with the letters at the positions in upper turned to upper case
Cased(lit, upper) == [k \in 1..Len(lit) |-> IF k \in upper THEN lit[k] - 32 ELSE lit[k]]

\* "start" and "stop" in several mixes of letter case
CasedLiterals ==
  {Cased(START, u) : u \in {{}, {1}, {2, 4}, {1, 3, 5}, {1, 2, 3, 4, 5}}}
  \cup {Cased(STOP, u) : u \in {{}, {1}, {2, 4}, {1, 3}, {1, 2, 3, 4}}}

\* runs of up to MaxPad spaces and tabs
Pads == UNION {[1..n -> {32, 9}] : n \in 0..MaxPad}

\* lines that are no command: too long, too short, split, glued, blank, empty
NearMisses ==
  { START \o <<115>>, STOP \o <<120>>, SubSeq(START, 1, 4), SubSeq(STOP, 1, 3),
    Tail(START), Tail(STOP), <<120>> \o START, <<115, 116, 32, 111, 112>>,
    <<115, 116, 32, 97, 114, 116>>, START \o <<32>> \o STOP, STOP \o START,
    <<>>, <<32>>, <<120>> }

TestLines ==
  {pre \o w \o post : pre \in Pads, w \in CasedLiterals, post \in Pads}
  \cup NearMisses

----------------------------------------------------------------------------
Other(v) == IF v = "A" THEN "B" ELSE "A"

Init ==
  /\ variant \in {"A", "B"}
  /\ pc = "setup"
  /\ isRunning = FALSE
  /\ inputCommand = <<>>
  /\ rx = <<>>
  /\ written = <<>>
  /\ arrived = <<>>
  /\ consumed = <<>>
  /\ availAtStart = 0
  /\ nRead = 0
  /\ nDelayArrived = 0
  /\ afterLine = [run |-> FALSE, buf |-> <<>>]
  /\ sentChunks = 0
  /\ sinceReading = 0
  /\ watch = [pc |-> "none", run |-> FALSE, readings |-> 0]
  /\ twin = [isRunning |-> FALSE, inputCommand |-> <<>>, reading |-> FALSE]

\* setup(): open the port and print the banner
Setup ==
  /\ pc = "setup"
  /\ written' = Append(written, BANNER)
  /\ pc' = "input"
  /\ UNCHANGED <<variant, isRunning, inputCommand, rx, arrived, consumed,
                 availAtStart, nRead, nDelayArrived, afterLine, sentChunks,
                 sinceReading, watch, twin>>

\* the host sends a burst of bytes; the UART queues them behind the unread ones
Receive ==
  /\ pc # "setup"
  /\ sentChunks < MaxChunks
  /\ \E chunk \in HostChunks :
       /\ rx' = rx \o chunk
       /\ arrived' = arrived \o chunk
       /\ nDelayArrived' = IF pc = "delay" THEN Len(arrived) + Len(chunk)
                           ELSE nDelayArrived
  /\ sentChunks' = sentChunks + 1
  /\ UNCHANGED <<variant, pc, isRunning, inputCommand, written, consumed,
                 availAtStart, nRead, afterLine, sinceReading, watch, twin>>

\* the host sends one whole line of TestLines with its terminator, at boot or
\* once a first line "start" has been read; watch records where the sketch was
ReceiveLine ==
  /\ pc # "setup"
  /\ rx = <<>>
  /\ arrived \in {<<>>, START \o <<LF>>}
  /\ \E line \in TestLines, t \in {LF, CR} :
       /\ rx' = line \o <<t>>
       /\ arrived' = arrived \o line \o <<t>>
       /\ nDelayArrived' = IF pc = "delay" THEN Len(arrived) + Len(line) + 1
                           ELSE nDelayArrived
  /\ watch' = [pc |-> pc, run |-> isRunning, readings |-> 0]
  /\ sentChunks' = sentChunks + 1
  /\ UNCHANGED <<variant, pc, isRunning, inputCommand, written, consumed,
                 availAtStart, nRead, afterLine, sinceReading, twin>>

\* the host sends "start\n" once
ReceiveStart ==
  /\ pc # "setup"
  /\ arrived = <<>>
  /\ rx' = START \o <<LF>>
  /\ arrived' = START \o <<LF>>
  /\ sentChunks' = sentChunks + 1
  /\ UNCHANGED <<variant, pc, isRunning, inputCommand, written, consumed,
                 availAtStart, nRead, nDelayArrived, afterLine, sinceReading,
                 watch, twin>>

\* what the same input step does to the other sketch
TwinInput(inChar) ==
  LET res == ProcessCommand(Other(variant), twin.isRunning, twin.inputCommand)
  IN [isRunning |-> IF IsTerminator(inChar) THEN res.isRunning ELSE twin.isRunning,
      inputCommand |-> NextBuffer(twin.inputCommand, inChar),
      reading |-> FALSE]

\* variant of InputStep that reads every available byte, as a while loop would
InputStep_Drain ==
  /\ pc = "input"
  /\ availAtStart' = Len(rx)
  /\ LET end == Drained(variant, isRunning, inputCommand, rx)
         twinEnd == Drained(Other(variant), twin.isRunning, twin.inputCommand, rx)
     IN /\ rx' = <<>>
        /\ consumed' = consumed \o rx
        /\ nRead' = IF Len(rx) > 0 THEN 1 ELSE 0
        /\ isRunning' = end.isRunning
        /\ inputCommand' = end.inputCommand
        /\ written' = end.out
        /\ afterLine' = IF TermIn(rx)
                          THEN [run |-> end.isRunning, buf |-> end.inputCommand]
                          ELSE afterLine
        /\ twin' = [isRunning |-> twinEnd.isRunning,
                    inputCommand |-> twinEnd.inputCommand, reading |-> FALSE]
  /\ sinceReading' = IF isRunning THEN sinceReading + Len(rx) ELSE 0
  /\ pc' = "sample"
  /\ UNCHANGED <<variant, arrived, nDelayArrived, sentChunks, watch>>

\* first half of loop(): read at most one byte and act on it
InputStep ==
  /\ pc = "input"
  /\ availAtStart' = Len(rx)
  /\ IF Len(rx) > 0
       THEN LET inChar == Head(rx)
                res == ProcessCommand(variant, isRunning, inputCommand)
            IN /\ rx' = Tail(rx)
               /\ consumed' = Append(consumed, inChar)
               /\ nRead' = 1
               /\ isRunning' = IF IsTerminator(inChar) THEN res.isRunning ELSE isRunning
               /\ written' = IF IsTerminator(inChar) THEN res.out ELSE <<>>
               /\ inputCommand' = NextBuffer(inputCommand, inChar)
               /\ afterLine' = IF IsTerminator(inChar)
                                 THEN [run |-> isRunning', buf |-> inputCommand']
                                 ELSE afterLine
               /\ twin' = TwinInput(inChar)
       ELSE /\ nRead' = 0
            /\ written' = <<>>
            /\ twin' = [twin EXCEPT !.reading = FALSE]
            /\ UNCHANGED <<rx, consumed, isRunning, inputCommand, afterLine>>
  /\ sinceReading' = IF isRunning THEN sinceReading + nRead' ELSE 0
  /\ pc' = "sample"
  /\ UNCHANGED <<variant, arrived, nDelayArrived, sentChunks, watch>>

\* the history variables after a sampling step that does or does not emit
Sampled(emits) ==
  /\ sinceReading' = IF emits THEN 0 ELSE sinceReading
  /\ watch' = IF emits /\ watch.pc # "none" /\ watch.readings < MaxCounted
                THEN [watch EXCEPT !.readings = @ + 1] ELSE watch
  /\ twin' = [twin EXCEPT !.reading = twin.isRunning]

\* variant of SampleStep that samples whatever the run state is
SampleStep_Unconditional ==
  /\ pc = "sample"
  /\ \E sensorValue \in Samples : written' = Append(written, Reading(variant, sensorValue))
  /\ pc' = "delay"
  /\ Sampled(TRUE)
  /\ UNCHANGED <<variant, isRunning, inputCommand, rx, arrived, consumed,
                 availAtStart, nRead, nDelayArrived, afterLine, sentChunks>>

\* variant of SampleStep that samples only in iterations that read no byte
SampleStep_OnlyWhenIdle ==
  /\ pc = "sample"
  /\ IF isRunning /\ nRead = 0
       THEN /\ \E sensorValue \in Samples : written' = Append(written, Reading(variant, sensorValue))
            /\ pc' = "delay"
       ELSE /\ written' = written
            /\ pc' = "input"
  /\ Sampled(isRunning /\ nRead = 0)
  /\ UNCHANGED <<variant, isRunning, inputCommand, rx, arrived, consumed,
                 availAtStart, nRead, nDelayArrived, afterLine, sentChunks>>

\* variant of SampleStep that does not wait after a reading
SampleStep_NoDelay ==
  /\ pc = "sample"
  /\ IF isRunning
       THEN \E sensorValue \in Samples : written' = Append(written, Reading(variant, sensorValue))
       ELSE written' = written
  /\ pc' = "input"
  /\ Sampled(isRunning)
  /\ UNCHANGED <<variant, isRunning, inputCommand, rx, arrived, consumed,
                 availAtStart, nRead, nDelayArrived, afterLine, sentChunks>>

\* variant of SampleStep that stops the collection after one reading
SampleStep_OneShot ==
  /\ pc = "sample"
  /\ IF isRunning
       THEN /\ \E sensorValue \in Samples : written' = Append(written, Reading(variant, sensorValue))
            /\ pc' = "delay"
       ELSE /\ written' = written
            /\ pc' = "input"
  /\ isRunning' = FALSE
  /\ Sampled(isRunning)
  /\ UNCHANGED <<variant, inputCommand, rx, arrived, consumed,
                 availAtStart, nRead, nDelayArrived, afterLine, sentChunks>>

\* second half of loop() for a sensor that returns one of values
SampleFrom(values) ==
  /\ pc = "sample"
  /\ IF isRunning
       THEN /\ \E sensorValue \in values : written' = Append(written, Reading(variant, sensorValue))
            /\ pc' = "delay"
       ELSE /\ written' = written
            /\ pc' = "input"
  /\ Sampled(isRunning)
  /\ UNCHANGED <<variant, isRunning, inputCommand, rx, arrived, consumed,
                 availAtStart, nRead, nDelayArrived, afterLine, sentChunks>>

\* second half of loop(): sample and print when running
SampleStep == SampleFrom(Samples)

\* the same with every value of the converter
SampleAny == SampleFrom(AdcRange)

\* variant of DelayDone that discards what was received during the delay
DelayDone_Flush ==
  /\ pc = "delay"
  /\ pc' = "input"
  /\ rx' = <<>>
  /\ UNCHANGED <<variant, isRunning, inputCommand, written, arrived, consumed,
                 availAtStart, nRead, nDelayArrived, afterLine, sentChunks,
                 sinceReading, watch, twin>>

\* delay() returns and loop() is entered again
DelayDone ==
  /\ pc = "delay"
  /\ pc' = "input"
  /\ UNCHANGED <<variant, isRunning, inputCommand, rx, written, arrived, consumed,
                 availAtStart, nRead, nDelayArrived, afterLine, sentChunks,
                 sinceReading, watch, twin>>

Next == Setup \/ Receive \/ InputStep \/ SampleStep \/ DelayDone

Spec == Init /\ [][Next]_vars

\* the sketch always runs; the host may stop typing
LiveSpec == Spec /\ WF_vars(Setup) /\ WF_vars(InputStep) /\ WF_vars(SampleStep)
                 /\ WF_vars(DelayDone)

\* the sketch fed whole lines of TestLines
LineNext == Setup \/ ReceiveLine \/ InputStep \/ SampleStep \/ DelayDone

LineSpec == Init /\ [][LineNext]_vars

\* the sketch started once and sampling every value of the converter
ConvNext == Setup \/ ReceiveStart \/ InputStep \/ SampleAny \/ DelayDone

ConvSpec == Init /\ [][ConvNext]_vars

----------------------------------------------------------------------------
(* Vocabulary of the properties, stated over the byte histories            *)

\* positions of the line terminators in a byte sequence
TermPos(b) == {j \in 1..Len(b) : b[j] = LF \/ b[j] = CR}

\* the bytes of the line that the terminator at position j ends
LineAt(b, j) ==
  LET before == {k \in TermPos(b) : k < j}
      from == IF before = {} THEN 1
              ELSE 1 + CHOOSE k \in before : \A m \in before : m <= k
  IN SubSeq(b, from, j - 1)

\* the bytes after the last terminator
CurrentLine(b) ==
  IF TermPos(b) = {} THEN b
  ELSE SubSeq(b, 1 + CHOOSE k \in TermPos(b) : \A m \in TermPos(b) : m <= k, Len(b))

IsBlank(c) == c \in {9, 10, 11, 12, 13, 32}

FoldCase(c) == IF 65 <= c /\ c <= 90 THEN c + 32 ELSE c

\* line is lit, in any letter case, surrounded by any amount of whitespace
Recognizes(line, lit) ==
  \E i \in 1..(Len(line) + 1) :
    /\ i + Len(lit) - 1 <= Len(line)
    /\ \A k \in 1..Len(lit) : FoldCase(line[i + k - 1]) = lit[k]
    /\ \A k \in 1..Len(line) : (k < i \/ k >= i + Len(lit)) => IsBlank(line[k])

IsCommand(line) == Recognizes(line, START) \/ Recognizes(line, STOP)

\* the last start/stop line of b exists and is a start line
ExpectedRunning(b) ==
  \E j \in TermPos(b) :
    /\ Recognizes(LineAt(b, j), START)
    /\ \A k \in TermPos(b) : k > j => ~IsCommand(LineAt(b, k))

\* the last terminated line of b
PrevLine(b) == LineAt(b, CHOOSE k \in TermPos(b) : \A m \in TermPos(b) : m <= k)

LastByteIsTerminator(b) == b # <<>> /\ b[Len(b)] \in {LF, CR}

\* the line ended by the last byte of b
LastLine(b) == LineAt(b, Len(b))

NumReadings(w) == Cardinality({i \in 1..Len(w) : w[i].kind = "reading"})

StatusLines(w) == SelectSeq(w, LAMBDA l : l.kind = "status")

\* this step is the input step and it reads a terminator
ReadsTerminator ==
  pc = "input" /\ pc' = "sample" /\ rx # <<>> /\ Head(rx) \in {LF, CR}

\* the lines this step writes to the serial channel
NewLines ==
  IF pc = "input" /\ pc' = "sample" THEN written'
  ELSE SubSeq(written', Len(written) + 1, Len(written'))

\* the current iteration has just read the terminator of a line
JustRead(b) == pc = "sample" /\ nRead = 1 /\ LastByteIsTerminator(b)

TypeOK ==
  /\ variant \in {"A", "B"}
  /\ pc \in {"setup", "input", "sample", "delay"}
  /\ isRunning \in BOOLEAN
  /\ nRead \in 0..1
  /\ sentChunks \in 0..MaxChunks

----------------------------------------------------------------------------
\* C1: whenever every delivered byte has been read, isRunning is true iff the
\* last terminated start/stop line (trimmed, case-folded) was "start"; lines
\* that match neither and an unterminated tail do not count.
C1_RunStateIsLastCommand ==
  rx = <<>> => (isRunning <=> ExpectedRunning(arrived))

\* all input read, running, with a later non-command line and an open tail
C1_Witness ==
  /\ rx = <<>> /\ isRunning
  /\ Cardinality(TermPos(arrived)) >= 2
  /\ ~LastByteIsTerminator(arrived)
  /\ CurrentLine(arrived) # <<>>

\* C2: "start" while RUNNING leaves RUNNING, "stop" while STOPPED leaves
\* STOPPED, and a line processed a second time in a row leaves the run state
\* and the buffer as they were after the first time.
C2_Idempotent ==
  [][ReadsTerminator =>
       /\ (Recognizes(inputCommand, START) /\ isRunning => isRunning')
       /\ (Recognizes(inputCommand, STOP) /\ ~isRunning => ~isRunning')
       /\ (TermPos(consumed) # {} /\ PrevLine(consumed) = CurrentLine(consumed)
           => isRunning' = afterLine.run /\ inputCommand' = afterLine.buf)]_vars

\* a second "start" line in a row has just been processed
C2_Witness ==
  /\ JustRead(consumed) /\ isRunning
  /\ Cardinality(TermPos(consumed)) = 2
  /\ Recognizes(LastLine(consumed), START)
  /\ PrevLine(SubSeq(consumed, 1, Len(consumed) - 1)) = LastLine(consumed)

\* C3: reading a terminator when the buffer is neither "start" nor "stop"
\* (trimmed, case-folded; the empty buffer included) leaves isRunning as it
\* was and writes nothing to the serial channel, in both variants.
C3_UnknownLineIsSilent ==
  [][ReadsTerminator /\ ~IsCommand(inputCommand)
       => isRunning' = isRunning /\ NewLines = <<>>]_vars

\* a non-empty line that is no command has just been processed while running
C3_Witness ==
  /\ JustRead(consumed) /\ isRunning /\ written = <<>>
  /\ LastLine(consumed) # <<>>
  /\ ~IsCommand(LastLine(consumed))

\* C4: an iteration emits at most one reading, and only when isRunning is
\* true at its sampling step; so a reading exists only when the last command
\* processed so far is a "start".
C4_ReadingOnlyWhenRunning ==
  /\ NumReadings(written) <= 1
  /\ NumReadings(written) = 1 =>
        pc \in {"delay", "input"} /\ isRunning /\ ExpectedRunning(consumed)

\* a reading has been emitted after a "start" line
C4_Witness ==
  /\ pc = "delay" /\ NumReadings(written) = 1 /\ isRunning
  /\ ExpectedRunning(consumed)

\* C5: when the sampling step is reached, every byte that was available when
\* the iteration began has been read.
C5_DrainsBeforeSampling ==
  pc = "sample" => nRead = availAtStart

\* "start" (any letter case) and a terminator are at the head of the receive
\* buffer while STOPPED with an empty command buffer
StartPending ==
  /\ pc # "setup" /\ ~isRunning /\ inputCommand = <<>>
  /\ Len(rx) >= 6
  /\ \A k \in 1..5 : FoldCase(rx[k]) = START[k]
  /\ rx[6] \in {LF, CR}

\* the first line ever read was a "start" line and its terminator was read
\* by the current iteration
FirstStartRead ==
  /\ nRead = 1 /\ LastByteIsTerminator(consumed)
  /\ Cardinality(TermPos(consumed)) = 1
  /\ Recognizes(LastLine(consumed), START)

\* C6: a "start" line delivered while STOPPED with an empty buffer leads to
\* RUNNING, and the iteration that reads its terminator emits the first
\* reading itself, before any delay and before reading another byte.
C6_StartThenReadingSameIteration ==
  /\ StartPending ~> (isRunning /\ pc = "delay" /\ NumReadings(written) = 1)
  /\ [][ReadsTerminator /\ ~isRunning /\ Recognizes(inputCommand, START)
          => isRunning' /\ NumReadings(written') = 0]_vars
  /\ [][pc = "sample" /\ pc' # "sample" /\ nRead = 1
          /\ LastByteIsTerminator(consumed) /\ Recognizes(LastLine(consumed), START)
          => pc' = "delay" /\ NumReadings(NewLines) = 1 /\ consumed' = consumed]_vars

\* the boot-time "start" line has been read and the same iteration has emitted
\* a reading
C6_Witness ==
  FirstStartRead /\ pc = "delay" /\ isRunning /\ NumReadings(written) = 1

\* C7: bytes delivered during the delay are not read during it, are not lost
\* or reordered, and are all read eventually; the run state always follows
\* the commands read so far.
C7_DelayedInputIsKept ==
  /\ [](arrived = consumed \o rx)
  /\ [](isRunning <=> ExpectedRunning(consumed))
  /\ [][pc = "delay" => /\ consumed' = consumed
                        /\ isRunning' = isRunning
                        /\ Len(rx') >= Len(rx)
                        /\ SubSeq(rx', 1, Len(rx)) = rx]_vars
  /\ (Len(consumed) < nDelayArrived) ~> (Len(consumed) >= nDelayArrived)

\* a "stop" line whose terminator arrived during a delay has been processed
C7_Witness ==
  /\ nDelayArrived > 0 /\ Len(consumed) = nDelayArrived
  /\ JustRead(consumed) /\ ~isRunning
  /\ Recognizes(LastLine(consumed), STOP)

\* C8: the step that reads a terminator leaves the command buffer empty
\* whatever the line was, and the buffer always holds exactly the bytes read
\* since the last terminator.
C8_BufferResetOnTerminator ==
  [][/\ ReadsTerminator => inputCommand' = <<>>
     /\ inputCommand' = CurrentLine(consumed')]_vars

\* a "start" line was recognized right after a non-empty line that matched
\* nothing
C8_Witness ==
  /\ JustRead(consumed) /\ inputCommand = <<>> /\ isRunning
  /\ Cardinality(TermPos(consumed)) = 2
  /\ Recognizes(LastLine(consumed), START)
  /\ LET first == PrevLine(SubSeq(consumed, 1, Len(consumed) - 1))
     IN first # <<>> /\ ~IsCommand(first) /\ \E k \in 1..Len(first) : ~IsBlank(first[k])

\* C9 as stated: in Variant A a status line is written only by a step that
\* changes isRunning.
C9_StatusOnlyOnTransition ==
  [][variant = "A" /\ StatusLines(NewLines) # <<>> => isRunning' # isRunning]_vars

\* C9 amended: in Variant A a status line is written exactly by the step that
\* reads the terminator of a recognized line, STARTED for "start" and STOPPED
\* for "stop", whether or not isRunning changes.
C9_StatusOnEveryCommand ==
  [][variant = "A" =>
       StatusLines(NewLines) =
         IF ReadsTerminator /\ Recognizes(inputCommand, START) THEN <<STARTED>>
         ELSE IF ReadsTerminator /\ Recognizes(inputCommand, STOP) THEN <<STOPPED>>
         ELSE <<>>]_vars

\* Variant A has acknowledged a "start" line read while already RUNNING
C9_Witness ==
  /\ variant = "A" /\ JustRead(consumed) /\ written = <<STARTED>>
  /\ Cardinality(TermPos(consumed)) = 2
  /\ ExpectedRunning(SubSeq(consumed, 1, Len(consumed) - 1))

\* C10 as stated: in Variant B every line written is a reading emitted while
\* isRunning is true.
C10_OnlyReadingsEver ==
  variant = "B" =>
    \A i \in 1..Len(written) : written[i].kind = "reading" /\ isRunning

\* C10 amended: in Variant B setup() writes the banner once, and every line
\* written afterwards is a reading emitted while isRunning is true; no
\* status line is ever written.
C10_OnlyReadingsAfterBanner ==
  [][variant = "B" =>
       IF pc = "setup" /\ pc' # "setup" THEN NewLines = <<BANNER>>
       ELSE \A i \in 1..Len(NewLines) :
              NewLines[i].kind = "reading" /\ isRunning /\ isRunning']_vars

\* Variant B has processed a "start" line and written a reading, nothing else
C10_Witness ==
  /\ variant = "B" /\ pc = "delay" /\ FirstStartRead
  /\ Len(written) = 1 /\ written[1].kind = "reading"
----------------------------------------------------------------------------
(* Vocabulary of the numerical properties: exact integer arithmetic *)

Abs(x) == IF x < 0 THEN -x ELSE x

\* floor(|f| * 2^24) for a float below 64 in magnitude
Units24(f) ==
  IF f.m = 0 THEN 0
  ELSE IF f.e + 24 >= 0 THEN f.m * (2^(f.e + 24))
  ELSE f.m \div (2^(-(f.e + 24)))

\* quotient of n * 10^k by d, one digit at a time
RECURSIVE DecDiv(_, _, _, _)
DecDiv(q, r, d, k) ==
  IF k = 0 THEN q ELSE DecDiv(10 * q + ((10 * r) \div d), (10 * r) % d, d, k - 1)

\* floor(|f| * 10^k)
DecFloor(f, k) == DecDiv(Units24(f) \div 16777216, Units24(f) % 16777216, 16777216, k)

\* floor(s * 5 / 1023 * 2^24)
ExactVolt24(sample) ==
  ShiftDiv((5 * sample) \div 1023, (5 * sample) % 1023, 1023, 24)[1]

\* floor(((s * 5 / 1023) / 5 - 0.095) / 0.009 / 100 * 10^6)
ExactBarMicro(sample) ==
  LET x == 1000 * sample - 97185
  IN (x \div 9207) * 10000 + (((x % 9207) * 10000) \div 9207)

\* the digits of a printed number read as one integer
RECURSIVE DigitsValue(_)
DigitsValue(chars) ==
  IF chars = <<>> THEN 0
  ELSE LET c == chars[Len(chars)]
           front == DigitsValue(SubSeq(chars, 1, Len(chars) - 1))
       IN IF c \in 48..57 THEN 10 * front + (c - 48) ELSE front

\* digits after the decimal point of a printed number
Decimals(chars) ==
  IF \E k \in 1..Len(chars) : chars[k] = 46
    THEN Len(chars) - CHOOSE k \in 1..Len(chars) : chars[k] = 46
    ELSE 0

\* a printed number in units of 10^-k
Scaled(chars, k) ==
  (IF chars # <<>> /\ chars[1] = 45 THEN -1 ELSE 1)
    * DigitsValue(chars) * (10^(k - Decimals(chars)))

\* the readings among the lines written by the current iteration
ReadingsWritten == {written[i] : i \in {k \in 1..Len(written) : written[k].kind = "reading"}}

\* C11: for every raw sample the voltage is s * 5 / 1023 to within 2^-20,
\* exactly 0 for s = 0 and 5 to within 2^-20 for s = 1023; Variant A prints it
\* to the nearest hundredth and Variant B prints
\* ((voltage / 5 - 0.095) / 0.009) / 100 to the nearest millionth.
C11_ConversionMatchesFormula ==
  \A r \in ReadingsWritten :
    LET v == Voltage(r.raw) IN
    /\ r.raw \in AdcRange
    /\ v.s = 0
    /\ Abs(Units24(v) - ExactVolt24(r.raw)) <= 16
    /\ r.raw = 0 => v = FZero
    /\ r.raw = 1023 => Abs(Units24(v) - 5 * 16777216) <= 16
    /\ variant = "A" => Abs(Scaled(r.number, 2) - ((500 * r.raw) \div 1023)) <= 1
    /\ variant = "B" => Abs(Scaled(r.number, 6) - ExactBarMicro(r.raw)) <= 1

\* Variant B has printed the reading of the full-scale sample
C11_Witness ==
  /\ variant = "B" /\ pc = "delay"
  /\ \E r \in ReadingsWritten : r.raw = 1023 /\ Scaled(r.number, 6) = 1005556

\* C12 as stated: for raw sample 511 Variant A emits a value within 0.0005
\* of 2.4985.
C12_Emits24985 ==
  variant = "A" =>
    \A r \in ReadingsWritten : r.raw = 511 => Abs(Scaled(r.number, 4) - 24985) < 5

\* C12 amended: for raw sample 511 Variant A computes 2.4975... (511 * 5 / 1023)
\* and emits it rounded to two decimals, as the text "2.50".
C12_Emits250 ==
  variant = "A" =>
    \A r \in ReadingsWritten :
      r.raw = 511 => /\ r.number = <<50, 46, 53, 48>>
                     /\ DecFloor(Voltage(511), 4) = 24975
                     /\ (5 * 511 * 10000) \div 1023 = 24975

\* Variant A has printed the reading of sample 511
C12_Witness ==
  /\ variant = "A" /\ pc = "delay"
  /\ \E r \in ReadingsWritten : r.raw = 511

\* C13: a step that emits a reading enters the delay; during the delay no
\* byte is read and no line is written; the delay is entered only by a step
\* that emits a reading, and never while isRunning is false.
C13_OneDelayPerReading ==
  [][/\ NumReadings(NewLines) = 1 => pc' = "delay"
     /\ pc = "delay" => /\ consumed' = consumed
                        /\ NewLines = <<>>
                        /\ pc' \in {"delay", "input"}
     /\ pc # "delay" /\ pc' = "delay" => NumReadings(NewLines) = 1
     /\ ~isRunning' => pc' # "delay"]_vars

\* the sketch is in the delay after a reading while input is waiting
C13_Witness ==
  pc = "delay" /\ NumReadings(written) = 1 /\ rx # <<>> /\ nRead = 1

\* C14: a terminated line acts as a command exactly when it is "start" or
\* "stop" in any letter case between any blanks: every test line of that form
\* sets the run state, every near miss ("starts", "sto", "st op", ...) leaves it
\* alone and is not acknowledged.
C14_RecognizedIffTrimmedLiteral ==
  [][ReadsTerminator =>
       LET line == CurrentLine(consumed) IN
       /\ isRunning' = IF Recognizes(line, START) THEN TRUE
                       ELSE IF Recognizes(line, STOP) THEN FALSE ELSE isRunning
       /\ variant = "A" => (StatusLines(NewLines) # <<>> <=> IsCommand(line))
       /\ line \in NearMisses =>
            ~IsCommand(line) /\ isRunning' = isRunning /\ NewLines = <<>>
       /\ line \in TestLines \ NearMisses =>
            /\ IsCommand(line)
            /\ isRunning' = (\E k \in 1..Len(line) : line[k] \in {65, 97})]_vars

\* a "stop" in mixed case with a blank on either side has stopped the sketch
C14_Witness ==
  /\ JustRead(consumed) /\ ~isRunning /\ watch.run
  /\ Len(LastLine(consumed)) = 6
  /\ \E k \in 1..6 : LastLine(consumed)[k] \in 65..90
  /\ \E k \in 1..6 : LastLine(consumed)[k] \in 97..122
  /\ IsBlank(LastLine(consumed)[1]) /\ IsBlank(LastLine(consumed)[6])

\* C15: '\r' and '\n' each end a line with the same effect, and the '\n' of a
\* "\r\n" pair is an empty line: it changes neither isRunning nor the buffer
\* and writes nothing.
C15_EitherTerminator ==
  [][ReadsTerminator =>
       LET line == CurrentLine(consumed) IN
       /\ inputCommand' = <<>>
       /\ IsCommand(line) => isRunning' = Recognizes(line, START)
       /\ ~IsCommand(line) => isRunning' = isRunning
       /\ LastByteIsTerminator(consumed) =>
            /\ isRunning' = afterLine.run /\ inputCommand' = afterLine.buf
            /\ NewLines = <<>>]_vars

\* Variant A has read "start\r\n": running, and the '\n' wrote nothing
C15_Witness ==
  /\ variant = "A" /\ JustRead(consumed) /\ isRunning /\ written = <<>>
  /\ Len(consumed) >= 7
  /\ consumed[Len(consumed)] = LF /\ consumed[Len(consumed) - 1] = CR
  /\ Recognizes(LastLine(SubSeq(consumed, 1, Len(consumed) - 1)), START)

\* C16: the buffer holds exactly the bytes read since the last terminator (or
\* boot), in order, however many they are.
C16_BufferNeverTruncated ==
  /\ inputCommand = CurrentLine(consumed)
  /\ \A k \in 1..Len(inputCommand) : inputCommand[k] \notin {LF, CR}

\* fifteen bytes have been read without a terminator
C16_Witness ==
  Len(inputCommand) >= 15 /\ TermPos(consumed) = {}

\* C17: isRunning changes only in a step that reads a terminator; the
\* sampling step and the delay leave isRunning and the buffer alone; reading
\* any other byte keeps isRunning and appends that byte.
C17_RunStateFrame ==
  [][/\ isRunning' # isRunning => ReadsTerminator
     /\ pc \in {"setup", "sample", "delay"} =>
          isRunning' = isRunning /\ inputCommand' = inputCommand
     /\ pc = "input" /\ pc' = "sample" /\ rx = <<>> =>
          isRunning' = isRunning /\ inputCommand' = inputCommand
     /\ pc = "input" /\ pc' = "sample" /\ rx # <<>> /\ ~ReadsTerminator =>
          isRunning' = isRunning /\ inputCommand' = Append(inputCommand, Head(rx))]_vars

\* a reading has been emitted in an iteration that appended a byte
C17_Witness ==
  /\ pc = "delay" /\ isRunning /\ nRead = 1 /\ NumReadings(written) = 1
  /\ inputCommand # <<>>

\* the four-byte line "stop", delivered whole while RUNNING, has just been
\* processed by the current iteration
StopLineDone ==
  /\ nRead = 1 /\ pc \in {"sample", "input"}
  /\ LastByteIsTerminator(consumed)
  /\ watch.pc # "none" /\ watch.run
  /\ Len(LastLine(consumed)) = 4 /\ Recognizes(LastLine(consumed), STOP)

\* C18 as stated: at most one byte is read between two readings while running,
\* and a pending "stop" line is followed by exactly four readings, none of them
\* in the iteration that reads the terminator.
C18_FourReadings ==
  /\ sinceReading <= 1
  /\ StopLineDone => ~isRunning /\ NumReadings(written) = 0 /\ watch.readings = 4

\* C18 amended: the count is four when the line is pending at the start of an
\* iteration or during the delay; when it arrives after the input step of an
\* iteration and before its sampling step, that iteration's reading comes
\* first and the count is five.
C18_FourReadingsFromIterationStart ==
  /\ sinceReading <= 1
  /\ StopLineDone =>
       /\ ~isRunning /\ NumReadings(written) = 0
       /\ watch.readings = IF watch.pc = "sample" THEN 5 ELSE 4

\* a "stop" line that arrived at the start of an iteration has been processed
\* after four readings
C18_Witness ==
  StopLineDone /\ watch.pc = "input" /\ watch.readings = 4 /\ pc = "input"

\* C19: run in step on the same input with the same availability, the other
\* sketch has the same isRunning and the same buffer after every step and
\* emits a reading in exactly the same iterations.
C19_VariantsInStep ==
  /\ twin.isRunning = isRunning
  /\ twin.inputCommand = inputCommand
  /\ twin.reading = (NumReadings(written) = 1)

\* sketch B and its twin have both run and then stopped on "start\n" "STOP\n"
C19_Witness ==
  /\ variant = "B" /\ ~isRunning /\ ~twin.isRunning /\ twin.inputCommand = <<>>
  /\ Len(consumed) >= 11
  /\ ExpectedRunning(SubSeq(consumed, 1, 6))
  /\ Recognizes(LastLine(consumed), STOP)
====
